---- MODULE Spec2Model ----
(***************************************************************************)
(* Model of update_engine_client_android.cc: the command-line client of    *)
(* the Android update engine.  main() runs a brillo::Daemon whose OnInit   *)
(* parses the flags, issues at most one primary remote call, optionally    *)
(* binds a callback, and either returns a non-zero code (Daemon::Run then  *)
(* returns it at once) or leaves the message loop running.  The loop runs  *)
(* the posted Daemon::QuitWithExitCode tasks and dispatches the binder     *)
(* callbacks onStatusUpdate / onPayloadApplicationComplete.                *)
(***************************************************************************)
EXTENDS Integers, Sequences, FiniteSets, TLC

\* ---------------------------------------------------------------- bounds
\* Longest raw --headers value (characters).
MaxHeaderLen == 1
\* Most callback notifications the service delivers in one run.
MaxNotifications == 3

\* ------------------------------------------------------ program constants
\* <sysexits.h>
EX_OK == 0
\* ErrorCode::kSuccess (update_engine/common/error_code.h)
kSuccess == 0
\* android::binder::Status exception codes
EX_NONE == 0
EX_SECURITY == 0 - 1
EX_SERVICE_SPECIFIC == 0 - 8
EX_TRANSACTION_FAILED == 0 - 129

\* A binder Status is represented by its exception code.
Statuses == {EX_NONE, EX_SECURITY, EX_SERVICE_SPECIFIC, EX_TRANSACTION_FAILED}

\* Status::isOk()
isOk(status) == status = EX_NONE

\* Status::exceptionCode()
exceptionCode(status) == status

\* ErrorCode values the service may report on completion
\* (kSuccess, kError, kDownloadTransferError).
ErrorCodes == {0, 1, 9}

\* The exit status the parent observes for an int returned from main().
ExitStatus(code) == code % 256

\* ----------------------------------------------------------- command line
HeaderChars == {"a", "\n"}

RECURSIVE SeqsUpTo(_, _)
SeqsUpTo(S, n) ==
  IF n = 0 THEN {<<>>}
  ELSE LET shorter == SeqsUpTo(S, n - 1)
       IN  shorter \cup {Append(s, c) : s \in {t \in shorter : Len(t) = n - 1}, c \in S}

\* The --payload switch: absent (FLAGS_payload keeps its default), given
\* with an empty value, or given with some other URI.
PayloadArgs == {"absent", "empty", "uri"}

\* One command line: which boolean switches are present, the --payload
\* switch, the raw --headers value (absent when empty) and the number of
\* positional arguments.
CommandLines ==
  [update : BOOLEAN, suspend : BOOLEAN, resume : BOOLEAN, cancel : BOOLEAN,
   follow : BOOLEAN, payload : PayloadArgs,
   headers : SeqsUpTo(HeaderChars, MaxHeaderLen), positional : 0..1]

B2N(b) == IF b THEN 1 ELSE 0

\* argc_: the program name plus one entry for every switch and positional.
argc(cl) ==
  1 + B2N(cl.update) + B2N(cl.suspend) + B2N(cl.resume) + B2N(cl.cancel)
    + B2N(cl.follow) + B2N(cl.payload # "absent") + B2N(cl.headers # <<>>)
    + cl.positional

\* FLAGS_payload after brillo::FlagHelper::Init.
FLAGS_payload(cl) ==
  CASE cl.payload = "absent" -> "http://127.0.0.1:8080/payload"
    [] cl.payload = "empty"  -> ""
    [] OTHER                 -> "http://example/payload"

\* base::SplitString(FLAGS_headers, "\n", KEEP_WHITESPACE, SPLIT_WANT_NONEMPTY)
RECURSIVE SplitAcc(_, _, _)
SplitAcc(raw, cur, acc) ==
  IF raw = <<>>
  THEN IF cur = <<>> THEN acc ELSE Append(acc, cur)
  ELSE IF Head(raw) = "\n"
       THEN SplitAcc(Tail(raw), <<>>, IF cur = <<>> THEN acc ELSE Append(acc, cur))
       ELSE SplitAcc(Tail(raw), Append(cur, Head(raw)), acc)

SplitString(raw) == SplitAcc(raw, <<>>, <<>>)

\* ------------------------------------------------------------------ state
VARIABLES
  pc,          \* "start", "loop" (message_loop_.Run()), "drain", "exited", "crashed"
  cmdline,     \* argc_/argv_ as given to main()
  service_,    \* "unset", "null" (getService failed) or "proxy"
  callback_,   \* TRUE once a UECallback has been created
  watching,    \* TRUE once binder_watcher_.Init() has run
  queue,       \* the tasks posted to the message loop, oldest first
  exit_code_,  \* brillo::Daemon::exit_code_
  main_ret,    \* value returned by main(), meaningful when pc = "exited"
  calls,       \* history: the remote calls issued, in order
  requests,    \* history: the ExitWhenIdle(int) calls made, in order
  completions, \* history: error codes of onPayloadApplicationComplete
  updates      \* history: number of onStatusUpdate notifications

vars == <<pc, cmdline, service_, callback_, watching, queue, exit_code_,
          main_ret, calls, requests, completions, updates>>

QuitWithExitCodeTask(code) == [kind |-> "QuitWithExitCode", code |-> code]
QuitClosure == [kind |-> "QuitClosure", code |-> 0]

Init ==
  /\ pc = "start"
  /\ cmdline \in CommandLines
  /\ service_ = "unset"
  /\ callback_ = FALSE
  /\ watching = FALSE
  /\ queue = <<>>
  /\ exit_code_ = EX_OK
  /\ main_ret = 0
  /\ calls = <<>>
  /\ requests = <<>>
  /\ completions = <<>>
  /\ updates = 0

\* ------------------------------------------------------------ exit requests
\* The result of one ExitWhenIdle call: the value it returns and the
\* message-loop queue and request history it leaves behind.
ExitResult(ret, q, reqs) == [ret |-> ret, queue |-> q, requests |-> reqs]

\* History entry for one ExitWhenIdle(int) call: the code asked for and
\* whether its task was posted.
ExitRequest(return_code, posted) == [code |-> return_code, posted |-> posted]

ExitWhenIdleInt_Front(return_code, posted, q, reqs) ==
  IF ~posted
  THEN ExitResult(1, q, Append(reqs, ExitRequest(return_code, FALSE)))
  ELSE ExitResult(EX_OK, <<QuitWithExitCodeTask(return_code)>> \o q,
                  Append(reqs, ExitRequest(return_code, TRUE)))

ExitWhenIdleInt_ReturnsCode(return_code, posted, q, reqs) ==
  IF ~posted
  THEN ExitResult(return_code, q, Append(reqs, ExitRequest(return_code, FALSE)))
  ELSE ExitResult(EX_OK, Append(q, QuitWithExitCodeTask(return_code)),
                  Append(reqs, ExitRequest(return_code, TRUE)))

\* ExitWhenIdle(int return_code): post Daemon::QuitWithExitCode(return_code)
\* to the current message loop; 1 when the task could not be posted.
ExitWhenIdleInt(return_code, posted, q, reqs) ==
  IF ~posted
  THEN ExitResult(1, q, Append(reqs, ExitRequest(return_code, FALSE)))
  ELSE ExitResult(EX_OK, Append(q, QuitWithExitCodeTask(return_code)),
                  Append(reqs, ExitRequest(return_code, TRUE)))

ExitWhenIdleStatus_OkAsFailure(status, posted, q, reqs) ==
  ExitWhenIdleInt(IF isOk(status) THEN 1 ELSE exceptionCode(status), posted, q, reqs)

\* ExitWhenIdle(const Status& status)
ExitWhenIdleStatus(status, posted, q, reqs) ==
  IF isOk(status)
  THEN ExitWhenIdleInt(EX_OK, posted, q, reqs)
  ELSE ExitWhenIdleInt(exceptionCode(status), posted, q, reqs)

\* The return code onPayloadApplicationComplete asks to exit with.
CompletionReturnCode(error_code) == IF error_code = kSuccess THEN EX_OK ELSE 1

\* --------------------------------------------------------------- OnInit
\* brillo::Daemon::OnInit() registers the signal handlers and reports EX_OK.
DaemonOnInit == EX_OK

\* argc_ == 1: nothing on the command line.
NothingToDo(cl) == argc(cl) = 1

HasPositional_Never(cl) == FALSE

\* !positional_args.empty()
HasPositional(cl) == cl.positional > 0

BindFailed_IgnoresBound(status, bound) == ~isOk(status)

\* !service_->bind(callback_, &bound).isOk() || !bound
BindFailed(status, bound) == ~isOk(status) \/ ~bound

ExitNow_Always(keep_running) == TRUE

ExitNow_Never(keep_running) == FALSE

\* if (!keep_running) return ExitWhenIdle(EX_OK);
ExitNow(keep_running) == ~keep_running

FirstSimpleAction_CancelFirst(cl) ==
  IF cl.cancel THEN "cancel"
  ELSE IF cl.resume THEN "resume"
  ELSE IF cl.suspend THEN "suspend"
  ELSE "none"

\* if (FLAGS_suspend) ... if (FLAGS_resume) ... if (FLAGS_cancel) ...: the
\* first of the three that is set, each of which returns from OnInit.
FirstSimpleAction(cl) ==
  IF cl.suspend THEN "suspend"
  ELSE IF cl.resume THEN "resume"
  ELSE IF cl.cancel THEN "cancel"
  ELSE "none"

\* One remote call as the service sees it, with the result it gave.
RemoteCall(op, uri, headers, status, bound) ==
  [op |-> op, uri |-> uri, headers |-> headers, status |-> status, bound |-> bound]

InitResult(outcome, ret, service, callback, watch, q, cs, reqs) ==
  [outcome |-> outcome, ret |-> ret, service |-> service, callback |-> callback,
   watching |-> watch, queue |-> q, calls |-> cs, requests |-> reqs]

\* OnInit(), given the command line and what the environment answers:
\* whether getService finds the service, the Status of the primary call,
\* the Status and bound flag of bind(), whether PostTask succeeds, and what
\* a call through a null service_ does ("crash", or "proceed" as if the
\* call had been made).
OnInit(cl, found, status, bindStatus, bound, posted, nullCall) ==
  LET svc == IF found THEN "proxy" ELSE "null"
      nullDeref == ~found /\ nullCall = "crash"
      early(code) ==
        InitResult("return", code, "unset", FALSE, FALSE, <<>>, <<>>, <<>>)
      crash(cb, cs) ==
        InitResult("crash", EX_OK, svc, cb, FALSE, <<>>, cs, <<>>)
      exiting(e, cb, cs) ==
        InitResult("return", e.ret, svc, cb, FALSE, e.queue, cs, e.requests)
      simple(op) ==
        IF nullDeref THEN crash(FALSE, <<>>)
        ELSE exiting(ExitWhenIdleStatus(status, posted, <<>>, <<>>), FALSE,
                     <<RemoteCall(op, "", <<>>, status, FALSE)>>)
      finish(keep_running, cs) ==
        IF ExitNow(keep_running)
        THEN exiting(ExitWhenIdleInt(EX_OK, posted, <<>>, <<>>), cl.follow, cs)
        ELSE InitResult("return", EX_OK, svc, TRUE, TRUE, <<>>, cs, <<>>)
      update(keep_running, cs) ==
        IF cl.update
        THEN IF nullDeref THEN crash(cl.follow, cs)
             ELSE LET cs2 == Append(cs, RemoteCall("applyPayload", FLAGS_payload(cl),
                                                   SplitString(cl.headers), status, FALSE))
                  IN  IF ~isOk(status)
                      THEN exiting(ExitWhenIdleStatus(status, posted, <<>>, <<>>),
                                   cl.follow, cs2)
                      ELSE finish(keep_running, cs2)
        ELSE finish(keep_running, cs)
      follow ==
        IF cl.follow
        THEN IF nullDeref THEN crash(TRUE, <<>>)
             ELSE LET cs == <<RemoteCall("bind", "", <<>>, bindStatus, bound)>>
                  IN  IF BindFailed(bindStatus, bound)
                      THEN InitResult("return", 1, svc, TRUE, FALSE, <<>>, cs, <<>>)
                      ELSE update(TRUE, cs)
        ELSE update(FALSE, <<>>)
  IN  IF DaemonOnInit # EX_OK THEN early(DaemonOnInit)
      ELSE IF NothingToDo(cl) THEN early(1)
      ELSE IF HasPositional(cl) THEN early(1)
      ELSE IF FirstSimpleAction(cl) # "none" THEN simple(FirstSimpleAction(cl))
      ELSE follow

\* ------------------------------------------------------------- actions
\* main(): Daemon::Run() calls OnInit(); a non-zero result is returned at
\* once, otherwise the message loop starts running.
Run ==
  /\ pc = "start"
  /\ \E found \in BOOLEAN, status \in Statuses, bindStatus \in Statuses,
        bound \in BOOLEAN, posted \in BOOLEAN, nullCall \in {"crash", "proceed"} :
       LET r == OnInit(cmdline, found, status, bindStatus, bound, posted, nullCall)
       IN  /\ pc' = IF r.outcome = "crash" THEN "crashed"
                    ELSE IF r.ret # EX_OK THEN "exited" ELSE "loop"
           /\ main_ret' = IF r.outcome = "return" /\ r.ret # EX_OK THEN r.ret ELSE main_ret
           /\ service_' = r.service
           /\ callback_' = r.callback
           /\ watching' = r.watching
           /\ queue' = r.queue
           /\ calls' = r.calls
           /\ requests' = r.requests
  /\ UNCHANGED <<cmdline, exit_code_, completions, updates>>

Looping == pc \in {"loop", "drain"}

\* The message loop runs a posted Daemon::QuitWithExitCode(code): it stores
\* the code and posts the closure that quits the loop.
QuitWithExitCode ==
  /\ Looping
  /\ queue # <<>>
  /\ Head(queue).kind = "QuitWithExitCode"
  /\ exit_code_' = Head(queue).code
  /\ queue' = Append(Tail(queue), QuitClosure)
  /\ UNCHANGED <<pc, cmdline, service_, callback_, watching, main_ret, calls,
                 requests, completions, updates>>

\* The message loop runs the quit closure: message_loop_.Run() returns and
\* Daemon::Run() goes on to run what is still queued.
Quit ==
  /\ Looping
  /\ queue # <<>>
  /\ Head(queue).kind = "QuitClosure"
  /\ pc' = "drain"
  /\ queue' = Tail(queue)
  /\ UNCHANGED <<cmdline, service_, callback_, watching, exit_code_, main_ret,
                 calls, requests, completions, updates>>

\* Daemon::Run() returns exit_code_ once no task is left, and main() returns it.
Return ==
  /\ pc = "drain"
  /\ queue = <<>>
  /\ pc' = "exited"
  /\ main_ret' = exit_code_
  /\ UNCHANGED <<cmdline, service_, callback_, watching, queue, exit_code_,
                 calls, requests, completions, updates>>

Notifications == updates + Len(completions)

onStatusUpdate_RequestsExit ==
  /\ Looping
  /\ watching
  /\ Notifications < MaxNotifications
  /\ updates' = updates + 1
  /\ queue' = Append(queue, QuitWithExitCodeTask(EX_OK))
  /\ requests' = Append(requests, ExitRequest(EX_OK, TRUE))
  /\ UNCHANGED <<pc, cmdline, service_, callback_, watching, exit_code_,
                 main_ret, calls, completions>>

\* UECallback::onStatusUpdate: logs and acknowledges.
onStatusUpdate ==
  /\ Looping
  /\ watching
  /\ Notifications < MaxNotifications
  /\ updates' = updates + 1
  /\ UNCHANGED <<pc, cmdline, service_, callback_, watching, queue, exit_code_,
                 main_ret, calls, requests, completions>>

\* UECallback::onPayloadApplicationComplete(error_code)
onPayloadApplicationComplete ==
  /\ Looping
  /\ watching
  /\ Notifications < MaxNotifications
  /\ \E error_code \in ErrorCodes, posted \in BOOLEAN :
       LET e == ExitWhenIdleInt(CompletionReturnCode(error_code), posted,
                                queue, requests)
       IN  /\ queue' = e.queue
           /\ requests' = e.requests
           /\ completions' = Append(completions, error_code)
  /\ UNCHANGED <<pc, cmdline, service_, callback_, watching, exit_code_,
                 main_ret, calls, updates>>

Next ==
  \/ Run
  \/ QuitWithExitCode
  \/ Quit
  \/ Return
  \/ onStatusUpdate
  \/ onPayloadApplicationComplete

Spec == Init /\ [][Next]_vars

\* The same runs under a fair scheduler: main() gets to run OnInit, the
\* message loop runs every task that is queued and Daemon::Run returns
\* once the loop has quit.  Notifications are up to the service.
FairSpec ==
  /\ Spec
  /\ WF_vars(Run)
  /\ WF_vars(QuitWithExitCode)
  /\ WF_vars(Quit)
  /\ WF_vars(Return)

TypeOK ==
  /\ pc \in {"start", "loop", "drain", "exited", "crashed"}
  /\ cmdline \in CommandLines
  /\ service_ \in {"unset", "null", "proxy"}
  /\ callback_ \in BOOLEAN
  /\ watching \in BOOLEAN
  /\ exit_code_ \in Int
  /\ main_ret \in Int
  /\ updates \in 0..MaxNotifications
  /\ Len(completions) <= MaxNotifications

\* ------------------------------------------------------------ run shapes
Exited == pc = "exited"

PrimaryOps == {"suspend", "resume", "cancel", "applyPayload"}

LastCall == calls[Len(calls)]

\* The service was found and the run issued bind() and then applyPayload(),
\* both of which succeeded.
BoundAndApplied ==
  /\ service_ = "proxy"
  /\ Len(calls) = 2
  /\ calls[1].op = "bind" /\ calls[1].status = EX_NONE /\ calls[1].bound
  /\ calls[2].op = "applyPayload" /\ calls[2].status = EX_NONE

\* The service was found and the last call issued is a primary action that
\* returned a failure.
PrimaryCallFailed ==
  /\ service_ = "proxy"
  /\ calls # <<>>
  /\ LastCall.op \in PrimaryOps
  /\ LastCall.status # EX_NONE

\* ---------------------------------------------------------------- claims
\* C1: in an --update --follow run whose bind and applyPayload succeeded,
\* the first onPayloadApplicationComplete decides the exit code: the run
\* ends with 0 when its error code is the success value and with 1 for
\* every other error code.
C1_FirstCompletionDecidesExit ==
  (Exited /\ cmdline.update /\ cmdline.follow /\ BoundAndApplied
   /\ completions # <<>>) =>
    ExitStatus(main_ret) = (IF completions[1] = 0 THEN 0 ELSE 1)

\* C2: a completion notification delivered after a first one is ignored:
\* it posts no further termination task.
C2_SecondCompletionIgnored ==
  [][(completions # <<>> /\ completions' # completions) => queue' = queue]_vars

\* C3: when ExitWhenIdle has been called twice, the run ends with the exit
\* code of the first call.
C3_FirstRequestWins ==
  (Exited /\ Len(requests) >= 2 /\ requests[1].posted) =>
    main_ret = requests[1].code

\* C4: a primary remote call that returns a failure ends the run with exit
\* code 1.
C4_CallFailureExitsOne ==
  (Exited /\ PrimaryCallFailed) => ExitStatus(main_ret) = 1

\* C5: --suspend, --resume or --cancel whose remote call returned ok and
\* whose deferred-exit task was enqueued ends the run with exit code 0.
C5_SimpleActionOkExitsZero ==
  (/\ Exited
   /\ service_ = "proxy"
   /\ Len(calls) = 1
   /\ calls[1].op \in {"suspend", "resume", "cancel"}
   /\ calls[1].status = EX_NONE
   /\ requests # <<>> /\ requests[1].posted) =>
    ExitStatus(main_ret) = 0

C5_Witness ==
  /\ Exited /\ service_ = "proxy" /\ cmdline.cancel /\ ~cmdline.suspend
  /\ calls = <<RemoteCall("cancel", "", <<>>, EX_NONE, FALSE)>>
  /\ requests = <<ExitRequest(0, TRUE)>>
  /\ main_ret = 0

\* The run made an exit request out of the result of a primary call: the
\* call of --suspend/--resume/--cancel, or an applyPayload that failed.
CallResultExitRequested ==
  /\ service_ = "proxy"
  /\ calls # <<>>
  /\ requests # <<>>
  /\ \/ LastCall.op \in {"suspend", "resume", "cancel"}
     \/ LastCall.op = "applyPayload" /\ LastCall.status # EX_NONE

\* The run bound its callback and every call it issued returned ok.
BoundAndAllOk ==
  /\ service_ = "proxy"
  /\ calls # <<>>
  /\ calls[1].op = "bind" /\ calls[1].status = EX_NONE /\ calls[1].bound
  /\ \A i \in DOMAIN calls : calls[i].status = EX_NONE

\* C6 as stated: with --follow, a run that requested exit out of a call
\* result does not terminate before onPayloadApplicationComplete fired.
C6_CallResultExitWaitsForCompletion ==
  (cmdline.follow /\ CallResultExitRequested /\ requests[1].posted /\ Exited) =>
    completions # <<>>

\* C6 amended: with --follow, a successful bind and an applyPayload that
\* (when requested) returned ok, OnInit makes no exit request and the run
\* stays in the message loop until onPayloadApplicationComplete fires; an
\* exit request that does come out of a call result (suspend, resume,
\* cancel, failed applyPayload) is not held back: the run never listens
\* and receives no notification.
C6_FollowKeepsRunningOnlyAfterOkCalls ==
  /\ (cmdline.follow /\ BoundAndAllOk /\ completions = <<>>) =>
       (pc = "loop" /\ watching /\ queue = <<>> /\ requests = <<>>)
  /\ (cmdline.follow /\ CallResultExitRequested) =>
       (~watching /\ completions = <<>> /\ updates = 0 /\ Len(requests) = 1)

C6_Witness ==
  /\ cmdline.follow /\ cmdline.update /\ BoundAndAllOk /\ Len(calls) = 2
  /\ pc = "loop" /\ completions = <<>> /\ updates = 2

\* C7: with --follow and none of suspend/resume/cancel, a bind that fails
\* or reports bound = false ends the run at once with exit code 1: no
\* applyPayload, no message loop, no notification.
C7_BindFailureExitsOne ==
  (/\ pc # "start"
   /\ service_ = "proxy"
   /\ calls # <<>>
   /\ calls[1].op = "bind"
   /\ (calls[1].status # EX_NONE \/ ~calls[1].bound)) =>
    /\ Exited
    /\ ExitStatus(main_ret) = 1
    /\ Len(calls) = 1
    /\ ~watching
    /\ queue = <<>> /\ requests = <<>>
    /\ completions = <<>> /\ updates = 0

C7_Witness ==
  /\ Exited /\ cmdline.follow /\ cmdline.update /\ service_ = "proxy"
  /\ calls = <<RemoteCall("bind", "", <<>>, EX_NONE, FALSE)>>
  /\ main_ret = 1

NoActionFlag(cl) ==
  ~(cl.suspend \/ cl.resume \/ cl.cancel \/ cl.update \/ cl.follow)

\* C8: a run with no action flag set ends as a usage error: exit code 1
\* and no remote call.
C8_NoActionFlagIsUsageError ==
  (Exited /\ NoActionFlag(cmdline)) => (ExitStatus(main_ret) = 1 /\ calls = <<>>)

\* C9: a run with a positional argument ends at once with exit code 1,
\* whatever flags are set, and issues no remote call (the service is not
\* even looked up).
C9_PositionalIsUsageError ==
  (pc # "start" /\ cmdline.positional > 0) =>
    (Exited /\ ExitStatus(main_ret) = 1 /\ calls = <<>> /\ service_ = "unset"
     /\ requests = <<>>)

C9_Witness ==
  /\ Exited /\ cmdline.positional = 1 /\ cmdline.suspend /\ cmdline.update
  /\ main_ret = 1 /\ calls = <<>>

\* C10: applyPayload is never issued with an empty URI.
C10_EmptyUriNeverApplied ==
  \A i \in DOMAIN calls : calls[i].op = "applyPayload" => calls[i].uri # ""

\* ------------------------------------------------- exit outcomes produced
PostedRequests == {i \in DOMAIN requests : requests[i].posted}

QueuedExits == {i \in DOMAIN queue : queue[i].kind = "QuitWithExitCode"}

\* main() returned the non-zero result of OnInit: the loop never ran.  (A
\* run that leaves through the loop has run a posted QuitWithExitCode.)
ReturnedFromOnInit == Exited /\ PostedRequests = {}

\* How many times the run has fixed its exit code so far: once for every
\* Daemon::QuitWithExitCode the loop has run, once for a non-zero OnInit
\* result returned by Daemon::Run.
OutcomesProduced ==
  (Cardinality(PostedRequests) - Cardinality(QueuedExits))
    + (IF ReturnedFromOnInit THEN 1 ELSE 0)

\* C11: when the service lookup failed and an action flag is set, the run
\* does not crash and can only end with exit code 1.
C11_LookupFailureExitsOne ==
  (service_ = "null" /\ ~NoActionFlag(cmdline)) =>
    (pc # "crashed" /\ (Exited => ExitStatus(main_ret) = 1))

\* C12: a run in which a deferred-exit task could not be enqueued ends
\* with exit code 1, whatever outcome was requested.
C12_UnpostedExitExitsOne ==
  (Exited /\ \E i \in DOMAIN requests : ~requests[i].posted) =>
    ExitStatus(main_ret) = 1

\* C13: the exit outcome is never produced more than once, and a
\* terminated run has produced exactly one.
C13_ExactlyOneOutcome ==
  /\ OutcomesProduced <= 1
  /\ Exited => OutcomesProduced = 1

\* OnInit got past the usage checks and did not crash.
Dispatched ==
  /\ pc \notin {"start", "crashed"}
  /\ argc(cmdline) > 1
  /\ cmdline.positional = 0

OnlyCall(op) == Len(calls) = 1 /\ calls[1].op = op

\* C14: the action flags form the priority list suspend > resume > cancel >
\* (follow, then update): a run issues the call of the first of suspend,
\* resume, cancel that is set and nothing else; bind and applyPayload are
\* issued only when none of the three is set, bind first.
C14_ActionPrecedence ==
  /\ (Dispatched /\ cmdline.suspend) => OnlyCall("suspend")
  /\ (Dispatched /\ ~cmdline.suspend /\ cmdline.resume) => OnlyCall("resume")
  /\ (Dispatched /\ ~cmdline.suspend /\ ~cmdline.resume /\ cmdline.cancel) =>
       OnlyCall("cancel")
  /\ \A i \in DOMAIN calls :
       /\ calls[i].op \in {"bind", "applyPayload"} =>
            ~(cmdline.suspend \/ cmdline.resume \/ cmdline.cancel)
       /\ calls[i].op = "bind" => (i = 1 /\ cmdline.follow)
       /\ calls[i].op = "applyPayload" =>
            /\ cmdline.update
            /\ i = (IF cmdline.follow THEN 2 ELSE 1)
            /\ cmdline.follow => calls[1].op = "bind"

C14_Witness ==
  /\ Exited /\ service_ = "proxy"
  /\ cmdline.suspend /\ cmdline.resume /\ cmdline.cancel
  /\ cmdline.follow /\ cmdline.update
  /\ OnlyCall("suspend") /\ main_ret = 0

\* The run is listening: --follow, the callback bound, every call ok.
Listening == cmdline.follow /\ BoundAndAllOk

\* --follow --update whose bind succeeded and whose applyPayload failed.
ApplyFailedAfterBind ==
  /\ cmdline.follow
  /\ service_ = "proxy"
  /\ Len(calls) = 2
  /\ calls[1].op = "bind" /\ calls[1].status = EX_NONE /\ calls[1].bound
  /\ calls[2].op = "applyPayload" /\ calls[2].status # EX_NONE

\* C15: a listening run leaves the message loop only on the quit closure
\* that follows an onPayloadApplicationComplete; with --update, an
\* applyPayload that fails right away ends the run with that failure and
\* the run never listens.
C15_ListeningEndsOnlyOnCompletion ==
  /\ [][(Listening /\ pc = "loop" /\ pc' # "loop") =>
          /\ completions # <<>>
          /\ PostedRequests # {}
          /\ queue # <<>> /\ Head(queue) = QuitClosure
          /\ pc' = "drain"]_vars
  /\ [](ApplyFailedAfterBind =>
          /\ ~watching /\ completions = <<>> /\ updates = 0
          /\ Len(requests) = 1 /\ requests[1].code = calls[2].status
          /\ Exited => main_ret = (IF requests[1].posted THEN calls[2].status ELSE 1))

C15_Witness ==
  /\ Exited /\ Listening /\ cmdline.update /\ Len(calls) = 2
  /\ completions = <<1>> /\ main_ret = 1

\* C16: onStatusUpdate never requests exit: a step that delivers one
\* enqueues nothing and leaves the exit requests, the exit code and the
\* listening state as they were.
C16_StatusUpdateNeverExits ==
  [][updates' # updates =>
       /\ queue' = queue /\ requests' = requests
       /\ exit_code_' = exit_code_ /\ main_ret' = main_ret
       /\ pc' = pc /\ watching' = watching /\ completions' = completions]_vars

C16_Witness ==
  /\ pc = "loop" /\ watching /\ updates >= 2
  /\ queue = <<>> /\ requests = <<>>

\* C17: ExitWhenIdle never terminates the run itself: a posted request
\* only appends its task behind what is queued, the exit code is set only
\* when the loop runs the task at the head of the queue, and a run that
\* posted a request ends only once the loop has quit and nothing is left.
C17_ExitIsDeferred ==
  /\ [][requests' # requests =>
          LET r == requests'[Len(requests')]
          IN  /\ Len(requests') = Len(requests) + 1
              /\ exit_code_' = exit_code_
              /\ r.posted =>
                   /\ pc' \in {"loop", "drain"}
                   /\ queue' = Append(queue, QuitWithExitCodeTask(r.code))
                   /\ main_ret' = main_ret
              /\ ~r.posted => queue' = queue]_vars
  /\ [][exit_code_' # exit_code_ =>
          /\ pc \in {"loop", "drain"}
          /\ queue # <<>>
          /\ Head(queue) = QuitWithExitCodeTask(exit_code_')]_vars
  /\ [][(Exited' /\ ~Exited /\ PostedRequests # {}) =>
          (pc = "drain" /\ queue = <<>> /\ main_ret' = exit_code_)]_vars

C17_Witness ==
  /\ pc = "loop" /\ Len(queue) = 2
  /\ queue[1] = QuitClosure
  /\ queue[2] = QuitWithExitCodeTask(1)

\* C18 as stated: every termination goes through the deferred-exit task:
\* main() returns only after the loop has quit, with the code a task set.
C18_EveryExitThroughLoop ==
  [][(Exited' /\ ~Exited) =>
       (pc = "drain" /\ queue = <<>> /\ main_ret' = exit_code_
        /\ PostedRequests # {})]_vars

\* C18 amended: a run returns from main() either through the deferred-exit
\* task run by the loop, or straight out of OnInit with exit code 1 and no
\* loop at all, which happens exactly for a usage error (nothing on the
\* command line, a positional argument), a failed bind, or a deferred-exit
\* task that could not be posted.
C18_ExitThroughLoopOrOnInitFailure ==
  [][(Exited' /\ ~Exited) =>
       \/ /\ pc = "drain" /\ queue = <<>>
          /\ main_ret' = exit_code_
          /\ PostedRequests # {}
       \/ /\ pc = "start"
          /\ main_ret' = 1
          /\ queue' = <<>> /\ exit_code_' = EX_OK
          /\ \A i \in DOMAIN requests' : ~requests'[i].posted
          /\ \/ argc(cmdline) = 1
             \/ cmdline.positional > 0
             \/ /\ Len(calls') = 1 /\ calls'[1].op = "bind"
                /\ (calls'[1].status # EX_NONE \/ ~calls'[1].bound)
             \/ /\ Len(requests') = 1 /\ ~requests'[1].posted]_vars

C18_Witness ==
  /\ Exited /\ argc(cmdline) = 1
  /\ main_ret = 1 /\ requests = <<>> /\ calls = <<>> /\ service_ = "unset"

\* --update with none of suspend, resume, cancel, follow, past the usage
\* checks and with the service found.
UpdateOnly ==
  /\ cmdline.update
  /\ ~(cmdline.suspend \/ cmdline.resume \/ cmdline.cancel \/ cmdline.follow)
  /\ cmdline.positional = 0
  /\ service_ = "proxy"

\* C19 as stated: an --update-only run issues no bind and never listens;
\* applyPayload's result alone decides: ok exits 0, a failure exits non-zero.
C19_UpdateResultAloneDecides ==
  UpdateOnly =>
    /\ OnlyCall("applyPayload")
    /\ ~watching /\ completions = <<>> /\ updates = 0
    /\ Exited => (ExitStatus(main_ret) = 0 <=> calls[1].status = EX_NONE)

\* C19 amended: an --update-only run issues no bind and never listens;
\* when the deferred-exit task is enqueued the result of applyPayload
\* decides, ok exiting 0 and a failure exiting with the non-zero exception
\* code; when the task cannot be enqueued the run exits 1 whatever
\* applyPayload returned.
C19_UpdateResultDecidesWhenPosted ==
  UpdateOnly =>
    /\ OnlyCall("applyPayload")
    /\ ~watching /\ completions = <<>> /\ updates = 0
    /\ Len(requests) = 1
    /\ (Exited /\ requests[1].posted) =>
         /\ main_ret = calls[1].status
         /\ ExitStatus(main_ret) = 0 <=> calls[1].status = EX_NONE
    /\ (Exited /\ ~requests[1].posted) => main_ret = 1

C19_Witness ==
  /\ Exited /\ UpdateOnly
  /\ calls[1].status = EX_NONE /\ calls[1].uri = "http://127.0.0.1:8080/payload"
  /\ requests = <<ExitRequest(0, TRUE)>>
  /\ main_ret = 0

\* C20: under a fair loop and calls that return, a run that is not
\* listening terminates, a listening run terminates once a completion
\* notification has been delivered, and a listening run that has received
\* none has not terminated.
C20_Termination ==
  /\ (pc # "start" /\ service_ # "null" /\ ~watching) ~> Exited
  /\ (watching /\ completions # <<>>) ~> Exited
  /\ [](watching /\ completions = <<>> => ~Exited)

====
